---- MODULE Spec2Model ----
(***************************************************************************)
(* Model of the claude-devstudio installer (install.py) and uninstaller    *)
(* (uninstall.py): the source collection, the target directory tree, the   *)
(* legacy command directory, the cache/backups directories, and the two    *)
(* programs as sequential processes run one after the other.               *)
(***************************************************************************)
EXTENDS Integers, Sequences, FiniteSets, TLC

VARIABLES
    srcExists,        \* skills_source.exists()
    src,              \* entries of skills_source: name -> [isDir, entries]
    listing,          \* the order in which iterdir() yields the sub-directories
    tgtExists,        \* skills_dest / skills_dir exists
    target,           \* entries of ~/.claude/skills: item name -> (file name -> content)
    cmdExists,        \* commands_dir exists
    commands,         \* the set of file names present in ~/.claude/commands
    aux,              \* which of the cache / backups directories exist
    prog,             \* the program that is running: "none", "install", "uninstall"
    pc,               \* its position
    skill_dirs,       \* install.py: skill_dirs
    idx,              \* index of the current loop
    response,         \* the last answer read by input()
    report,           \* per-name line printed by the current run
    installed_count,  \* install.py: installed_count
    removed_skills,   \* uninstall.py: removed_skills
    removed_legacy,   \* uninstall.py: removed_legacy
    out,              \* how the process ended: [code, msg]
    raised,           \* the exception that reached the top level, if any
    runs,             \* number of program runs started
    faults,           \* number of filesystem failures injected
    target0,          \* history: target at the start of the current run
    tgtExists0,       \* history: tgtExists at the start of the current run
    commands0,        \* history: commands at the start of the current run
    prev,             \* history: how the previous run ended, and what it installed
    hist              \* history of the current run: failing item, deletions, prompts

vars == <<srcExists, src, listing, tgtExists, target, cmdExists, commands, aux,
          prog, pc, skill_dirs, idx, response, report, installed_count,
          removed_skills, removed_legacy, out, raised, runs, faults,
          target0, tgtExists0, commands0, prev, hist>>

fsVars == <<srcExists, src, listing, tgtExists, target, cmdExists, commands, aux>>

----------------------------------------------------------------------------
(* Bounds *)

MaxRuns == 2
MaxFaults == 1

----------------------------------------------------------------------------
(* Names and contents *)

\* Item names: two names of the uninstaller's list and one name the
\* installer's usage text advertises that is not on that list.
ItemNames == {"commit", "docs", "tdd-red-green"}

PrimaryFile == "SKILL.md"

NewData == <<"new">>
OldData == <<"old">>
Truncated == <<>>

File(d) == [isFile |-> TRUE, data |-> d]
SubDir == [isFile |-> FALSE, data |-> <<>>]

EmptyDir == [f \in {} |-> OldData]

\* Shapes of a source item directory.
ItemShapes ==
    { [f \in {} |-> File(NewData)],
      [f \in {"extra.txt"} |-> File(NewData)],
      [f \in {"SKILL.md", "extra.txt", "assets"} |-> IF f = "assets" THEN SubDir ELSE File(NewData)] }

\* Shapes of an item directory already in the target before any run.
StaleShapes == { [f \in {"SKILL.md", "old.txt"} |-> OldData] }

Responses == {"y", "Y", "n", ""}

\* uninstall.py:116-117: .ccplugins_cache and .ccplugins_backups
AuxDirs == {"cache", "backups"}

Perms(S) == { s \in [1..Cardinality(S) -> S] : \A a, b \in DOMAIN s : s[a] = s[b] => a = b }

Range(s) == { s[k] : k \in DOMAIN s }

----------------------------------------------------------------------------
(* The uninstaller's name tables *)

\* uninstall.py `skills` (the entries of the list that ItemNames covers).
skills == <<"commit", "docs">>

\* f"{skill}.md" over the names of the list.
Md(stem) == IF stem = "commit" THEN "commit.md" ELSE "docs.md"

legacy_commands ==
    [k \in 1..Len(skills) |-> Md(skills[k])] \o <<"cleanup-types.md", "context-cache.md">>

\* A file of the commands directory that is not a DevStudio command.
OtherCommand == "notes.md"

AllNames == ItemNames \cup Range(legacy_commands)

----------------------------------------------------------------------------
(* Pure helpers *)

\* str.lower() on the answers the model draws.
Lower(s) == IF s = "Y" THEN "y" ELSE s

\* Variant: only an explicit "n" declines.
Declines_OnlyN(r) == Lower(r) = "n"

\* install.py:54 and uninstall.py:85: response.lower() != 'y'
Declines(r) == Lower(r) # "y"

\* d.is_dir() over the listing of the source root.
SubDirsOf(entries, order) == SelectSeq(order, LAMBDA n : entries[n].isDir)

\* Variant: the check for SKILL.md is missing.
HasSkillFile_Always(item) == TRUE

\* Variant: any file in the directory passes for SKILL.md.
HasSkillFile_NonEmpty(item) == DOMAIN item.entries # {}

\* skill_file.exists() for skill_dir / "SKILL.md"
HasSkillFile(item) == PrimaryFile \in DOMAIN item.entries

\* the entries of a skill directory that pass file.is_file()
RegularFiles(item) == { f \in DOMAIN item.entries : item.entries[f].isFile }

\* Variant: the destination is opened for appending.
copy2_Append(srcData, dstData) == dstData \o srcData

\* shutil.copy2: the destination holds the source's data afterwards.
copy2(srcData, dstData) == srcData

\* The destination directory after copying the files `done` of `item` into
\* `dir`, and leaving `cut` (if any) truncated by an interrupted copy.
CopyInto(item, dir, done, cut) ==
    [f \in DOMAIN dir \cup done \cup cut |->
        IF f \in done
        THEN copy2(item.entries[f].data, IF f \in DOMAIN dir THEN dir[f] ELSE Truncated)
        ELSE IF f \in cut THEN Truncated ELSE dir[f]]

\* dest_skill_dir.mkdir(parents=True, exist_ok=True)
MkDir(tree, name) == IF name \in DOMAIN tree THEN tree ELSE (name :> EmptyDir) @@ tree

\* shutil.rmtree / directory removal: the name is gone from the tree.
Remove(tree, name) == [n \in DOMAIN tree \ {name} |-> tree[n]]

\* install.py:86-91 and uninstall.py:133-139: what the entry point does with
\* an exception that leaves main().
TopLevel(program, exc, code) ==
    IF program = "install"
    THEN IF exc = "Exception"
         THEN [code |-> 1, msg |-> "error"]
         ELSE [code |-> code, msg |-> "traceback"]
    ELSE IF exc = "KeyboardInterrupt"
         THEN [code |-> 0, msg |-> "cancelled"]
         ELSE [code |-> 0, msg |-> "error"]

\* Exit statuses of an interpreter that dies of an uncaught KeyboardInterrupt.
InterruptCodes == {1, 130}

NoReport == [n \in AllNames |-> "none"]
NoHist == [failed |-> {}, deleted |-> {}, interrupted |-> FALSE, accepted |-> FALSE,
           prompted |-> FALSE]
Running == [code |-> -1, msg |-> "none"]

----------------------------------------------------------------------------
(* Initial states *)

SourceTrees ==
    UNION { [D -> [isDir : {TRUE}, entries : ItemShapes]] : D \in SUBSET ItemNames }

ReadMe == "README.md" :> [isDir |-> FALSE, entries |-> [f \in {} |-> File(NewData)]]

TargetTrees == UNION { [D -> StaleShapes] : D \in SUBSET ItemNames }

\* A machine on which only the installer has anything to look at.
InitInstallFS ==
    /\ srcExists \in BOOLEAN
    /\ IF srcExists
       THEN \E t \in SourceTrees :
              /\ src = t @@ ReadMe
              /\ \E p \in Perms(DOMAIN t) : listing = <<"README.md">> \o p
       ELSE src = <<>> /\ listing = <<>>
    /\ tgtExists \in BOOLEAN
    /\ IF tgtExists THEN target \in TargetTrees ELSE target = <<>>
    /\ cmdExists = FALSE
    /\ commands = {}
    /\ aux = {}

\* A machine without the repository's skills directory, with earlier
\* installations of skills, legacy commands, cache and backups.
InitUninstallFS ==
    /\ srcExists = FALSE
    /\ src = <<>>
    /\ listing = <<>>
    /\ tgtExists \in BOOLEAN
    /\ IF tgtExists THEN target \in TargetTrees ELSE target = <<>>
    /\ cmdExists \in BOOLEAN
    /\ IF cmdExists
       THEN commands \in SUBSET (Range(legacy_commands) \cup {OtherCommand})
       ELSE commands = {}
    /\ aux \in SUBSET AuxDirs

InitProc ==
    /\ prog = "none"
    /\ pc = "idle"
    /\ skill_dirs = <<>>
    /\ idx = 0
    /\ response = "none"
    /\ report = NoReport
    /\ installed_count = 0
    /\ removed_skills = 0
    /\ removed_legacy = 0
    /\ out = Running
    /\ raised = "none"
    /\ runs = 0
    /\ faults = 0
    /\ target0 = target
    /\ tgtExists0 = tgtExists
    /\ commands0 = commands
    /\ prev = [prog |-> "none", done |-> FALSE, installed |-> {}]
    /\ hist = NoHist

InitInstall == InitInstallFS /\ InitProc

InitUninstall == InitUninstallFS /\ InitProc

Init == InitInstall \/ InitUninstall

----------------------------------------------------------------------------
(* Starting a run, ending a run *)

CanStart == pc \in {"idle", "exit"} /\ runs < MaxRuns

\* The bookkeeping common to the start of both programs.
Begin(program) ==
    /\ prog' = program
    /\ runs' = runs + 1
    /\ prev' = [prog |-> prog, done |-> out.msg = "success",
                installed |-> { n \in ItemNames : report[n] = "installed" }]
    /\ target0' = target
    /\ tgtExists0' = tgtExists
    /\ commands0' = commands
    /\ report' = NoReport
    /\ response' = "none"
    /\ installed_count' = 0
    /\ removed_skills' = 0
    /\ removed_legacy' = 0
    /\ hist' = NoHist

\* sys.exit(code) or return from main()
Exit(code, msg) ==
    /\ pc' = "exit"
    /\ out' = [code |-> code, msg |-> msg]
    /\ raised' = "none"

\* An exception leaves main() and reaches the entry point's handlers.
Raise(exc) ==
    /\ pc' = "exit"
    /\ raised' = exc
    /\ \E c \in InterruptCodes : out' = TopLevel(prog', exc, c)

----------------------------------------------------------------------------
(* install.py *)

\* install.py:14-57, up to the overwrite prompt.
InstallStart ==
    /\ CanStart
    /\ Begin("install")
    /\ UNCHANGED <<srcExists, src, listing, cmdExists, commands, aux>>
    /\ LET dirs == IF srcExists THEN SubDirsOf(src, listing) ELSE <<>>
           existing == SelectSeq(dirs, LAMBDA n : n \in DOMAIN target)
       IN  IF ~srcExists \/ dirs = <<>>
           THEN /\ Exit(1, "error")
                /\ idx' = 1
                /\ UNCHANGED <<tgtExists, target, skill_dirs, faults>>
           ELSE /\ skill_dirs' = dirs
                /\ idx' = 1
                /\ \/ /\ tgtExists' = TRUE
                      /\ pc' = IF existing # <<>> THEN "prompt" ELSE "loop"
                      /\ out' = Running
                      /\ raised' = "none"
                      /\ UNCHANGED <<target, faults>>
                   \/ /\ ~tgtExists
                      /\ faults < MaxFaults
                      /\ faults' = faults + 1
                      /\ Raise("Exception")
                      /\ UNCHANGED <<tgtExists, target>>

\* install.py:53-57: the answer to "Overwrite existing skills? (y/N)".
InstallPrompt ==
    /\ prog = "install" /\ pc = "prompt"
    /\ UNCHANGED <<fsVars, prog, skill_dirs, idx, report, installed_count,
                   removed_skills, removed_legacy, runs, faults, target0,
                   tgtExists0, commands0, prev>>
    /\ \/ \E r \in Responses :
            /\ response' = r
            /\ hist' = [hist EXCEPT !.prompted = TRUE, !.accepted = ~Declines(r)]
            /\ IF Declines(r)
               THEN Exit(0, "cancelled")
               ELSE pc' = "loop" /\ UNCHANGED <<out, raised>>
       \/ /\ hist' = [hist EXCEPT !.prompted = TRUE, !.interrupted = TRUE]
          /\ Raise("KeyboardInterrupt")
          /\ UNCHANGED response
       \/ /\ hist' = [hist EXCEPT !.prompted = TRUE]
          /\ Raise("Exception")
          /\ UNCHANGED response

\* install.py:61-77: one iteration of the install loop.
InstallItem ==
    /\ prog = "install" /\ pc = "loop" /\ idx <= Len(skill_dirs)
    /\ UNCHANGED <<srcExists, src, listing, tgtExists, cmdExists, commands, aux,
                   prog, skill_dirs, response, removed_skills, removed_legacy,
                   runs, target0, tgtExists0, commands0, prev>>
    /\ LET name == skill_dirs[idx]
           item == src[name]
           made == MkDir(target, name)
           files == RegularFiles(item)
       IN  IF ~HasSkillFile(item)
           THEN /\ report' = [report EXCEPT ![name] = "skipped"]
                /\ idx' = idx + 1
                /\ UNCHANGED <<target, installed_count, pc, out, raised, faults, hist>>
           ELSE \/ /\ target' = [made EXCEPT ![name] = CopyInto(item, made[name], files, {})]
                   /\ report' = [report EXCEPT ![name] = "installed"]
                   /\ installed_count' = installed_count + 1
                   /\ idx' = idx + 1
                   /\ UNCHANGED <<pc, out, raised, faults, hist>>
                \/ /\ faults < MaxFaults
                   /\ faults' = faults + 1
                   /\ hist' = [hist EXCEPT !.failed = @ \cup {name}]
                   /\ Raise("Exception")
                   /\ UNCHANGED <<report, installed_count, idx>>
                   /\ \/ target' = target
                      \/ \E f \in files : \E done \in SUBSET (files \ {f}) :
                         \E cut \in {{}, {f}} :
                            target' = [made EXCEPT ![name] =
                                          CopyInto(item, made[name], done, cut)]

\* install.py:79-84: the summary after the loop.
InstallFinish ==
    /\ prog = "install" /\ pc = "loop" /\ idx > Len(skill_dirs)
    /\ Exit(0, "success")
    /\ UNCHANGED <<fsVars, prog, skill_dirs, idx, response, report, installed_count,
                   removed_skills, removed_legacy, runs, faults, target0,
                   tgtExists0, commands0, prev, hist>>

----------------------------------------------------------------------------
(* uninstall.py *)

\* The loop the uninstaller enters after position `from`: the skills loop is
\* guarded by skills_dir.exists(), the legacy loop by commands_dir.exists().
LoopAfter(from) ==
    IF from = "prompt" /\ tgtExists THEN "skills"
    ELSE IF from \in {"prompt", "skills"} /\ cmdExists THEN "legacy"
    ELSE "aux"

\* uninstall.py:59-71: the counts of what is installed.
installed_skills ==
    IF tgtExists THEN Cardinality({ k \in DOMAIN skills : skills[k] \in DOMAIN target }) ELSE 0

installed_legacy ==
    IF cmdExists
    THEN Cardinality({ k \in DOMAIN legacy_commands : legacy_commands[k] \in commands })
    ELSE 0

\* uninstall.py:13-81, up to the confirmation prompt.
UninstallStart ==
    /\ CanStart
    /\ Begin("uninstall")
    /\ UNCHANGED <<fsVars, skill_dirs, faults>>
    /\ idx' = 1
    /\ IF installed_skills = 0 /\ installed_legacy = 0
       THEN Exit(0, "info")
       ELSE pc' = "prompt" /\ out' = Running /\ raised' = "none"

\* uninstall.py:83-87: the answer to "Remove all ... skills and commands? (y/N)".
UninstallPrompt ==
    /\ prog = "uninstall" /\ pc = "prompt"
    /\ UNCHANGED <<fsVars, prog, skill_dirs, idx, report, installed_count,
                   removed_skills, removed_legacy, runs, faults, target0,
                   tgtExists0, commands0, prev>>
    /\ \/ \E r \in Responses :
            /\ response' = r
            /\ hist' = [hist EXCEPT !.prompted = TRUE, !.accepted = ~Declines(r)]
            /\ IF Declines(r)
               THEN Exit(0, "cancelled")
               ELSE pc' = LoopAfter("prompt") /\ UNCHANGED <<out, raised>>
       \/ /\ hist' = [hist EXCEPT !.prompted = TRUE, !.interrupted = TRUE]
          /\ Raise("KeyboardInterrupt")
          /\ UNCHANGED response
       \/ /\ hist' = [hist EXCEPT !.prompted = TRUE]
          /\ Raise("Exception")
          /\ UNCHANGED response

\* The position after iteration idx of a loop over `names`.
Advance(names, from) ==
    IF idx < Len(names)
    THEN idx' = idx + 1 /\ pc' = pc
    ELSE idx' = 1 /\ pc' = LoopAfter(from)

\* Variant: the deletion is not wrapped in try/except.
CaughtInLoop_Never(exc) == FALSE

\* uninstall.py:99 and 112: `except Exception` around one deletion.
CaughtInLoop(exc) == exc = "Exception"

\* uninstall.py:92-100: one iteration of the loop over `skills`.
UninstallSkill ==
    /\ prog = "uninstall" /\ pc = "skills"
    /\ UNCHANGED <<srcExists, src, listing, tgtExists, cmdExists, commands, aux,
                   prog, skill_dirs, response, installed_count, removed_legacy,
                   runs, target0, tgtExists0, commands0, prev>>
    /\ LET skill == skills[idx]
       IN  IF skill \notin DOMAIN target
           THEN /\ Advance(skills, "skills")
                /\ UNCHANGED <<target, report, removed_skills, faults, hist, out, raised>>
           ELSE \/ /\ target' = Remove(target, skill)
                   /\ hist' = [hist EXCEPT !.deleted = @ \cup {skill}]
                   /\ report' = [report EXCEPT ![skill] = "removed"]
                   /\ removed_skills' = removed_skills + 1
                   /\ Advance(skills, "skills")
                   /\ UNCHANGED <<faults, out, raised>>
                \/ /\ faults < MaxFaults
                   /\ faults' = faults + 1
                   /\ \E gone \in SUBSET DOMAIN target[skill] :
                         /\ gone # DOMAIN target[skill]
                         /\ target' = [target EXCEPT ![skill] =
                                          [f \in DOMAIN @ \ gone |-> @[f]]]
                   /\ hist' = [hist EXCEPT !.failed = @ \cup {skill}]
                   /\ UNCHANGED removed_skills
                   /\ IF CaughtInLoop("Exception")
                      THEN /\ report' = [report EXCEPT ![skill] = "failed"]
                           /\ Advance(skills, "skills")
                           /\ UNCHANGED <<out, raised>>
                      ELSE /\ Raise("Exception")
                           /\ UNCHANGED <<report, idx>>

\* uninstall.py:105-113: one iteration of the loop over `legacy_commands`.
UninstallLegacy ==
    /\ prog = "uninstall" /\ pc = "legacy"
    /\ UNCHANGED <<srcExists, src, listing, tgtExists, target, cmdExists, aux,
                   prog, skill_dirs, response, installed_count, removed_skills,
                   runs, target0, tgtExists0, commands0, prev>>
    /\ LET cmd == legacy_commands[idx]
       IN  IF cmd \notin commands
           THEN /\ Advance(legacy_commands, "legacy")
                /\ UNCHANGED <<commands, report, removed_legacy, faults, hist, out, raised>>
           ELSE \/ /\ commands' = commands \ {cmd}
                   /\ hist' = [hist EXCEPT !.deleted = @ \cup {cmd}]
                   /\ report' = [report EXCEPT ![cmd] = "removed"]
                   /\ removed_legacy' = removed_legacy + 1
                   /\ Advance(legacy_commands, "legacy")
                   /\ UNCHANGED <<faults, out, raised>>
                \/ /\ faults < MaxFaults
                   /\ faults' = faults + 1
                   /\ hist' = [hist EXCEPT !.failed = @ \cup {cmd}]
                   /\ UNCHANGED <<commands, removed_legacy>>
                   /\ IF CaughtInLoop("Exception")
                      THEN /\ report' = [report EXCEPT ![cmd] = "failed"]
                           /\ Advance(legacy_commands, "legacy")
                           /\ UNCHANGED <<out, raised>>
                      ELSE /\ Raise("Exception")
                           /\ UNCHANGED <<report, idx>>

\* uninstall.py:115-127: the optional removal of the cache and backups.
UninstallAux ==
    /\ prog = "uninstall" /\ pc = "aux"
    /\ UNCHANGED <<srcExists, src, listing, tgtExists, target, cmdExists, commands,
                   prog, skill_dirs, idx, report, installed_count, removed_skills,
                   removed_legacy, runs, target0, tgtExists0, commands0, prev>>
    /\ IF aux = {}
       THEN pc' = "finish" /\ UNCHANGED <<aux, response, out, raised, faults, hist>>
       ELSE \/ \E r \in Responses :
                 /\ response' = r
                 /\ UNCHANGED hist
                 /\ IF Lower(r) = "y"
                    THEN \/ /\ aux' = {}
                            /\ pc' = "finish"
                            /\ UNCHANGED <<out, raised, faults>>
                         \/ /\ faults < MaxFaults
                            /\ faults' = faults + 1
                            /\ \E d \in aux :
                                  aux' = IF d = "backups" THEN {"backups"} ELSE aux
                            /\ Raise("Exception")
                    ELSE pc' = "finish" /\ UNCHANGED <<aux, out, raised, faults>>
            \/ /\ hist' = [hist EXCEPT !.interrupted = TRUE]
               /\ Raise("KeyboardInterrupt")
               /\ UNCHANGED <<aux, response, faults>>
            \/ /\ Raise("Exception")
               /\ UNCHANGED <<aux, response, faults, hist>>

\* uninstall.py:129-131: the summary.
UninstallFinish ==
    /\ prog = "uninstall" /\ pc = "finish"
    /\ Exit(0, "success")
    /\ UNCHANGED <<fsVars, prog, skill_dirs, idx, response, report, installed_count,
                   removed_skills, removed_legacy, runs, faults, target0,
                   tgtExists0, commands0, prev, hist>>

----------------------------------------------------------------------------
(* Vocabulary of the properties *)

\* The source sub-directories, and those of them that hold SKILL.md.
SourceItems == { n \in DOMAIN src : src[n].isDir }

CompleteItems == { n \in SourceItems : "SKILL.md" \in DOMAIN src[n].entries }

IncompleteItems == SourceItems \ CompleteItems

\* The regular files of a source item, by name.
SourceFiles(n) == { f \in DOMAIN src[n].entries : src[n].entries[f].isFile }

InstallEnded == prog = "install" /\ pc = "exit"

InstallDone == InstallEnded /\ out.msg = "success"

UninstallEnded == prog = "uninstall" /\ pc = "exit"

\* The position of item n in the installer's list.
PosOf(n) == CHOOSE k \in DOMAIN skill_dirs : skill_dirs[k] = n

----------------------------------------------------------------------------
(* Specifications *)

NextInstall ==
    \/ InstallStart
    \/ InstallPrompt
    \/ InstallItem
    \/ InstallFinish

NextUninstall ==
    \/ UninstallStart
    \/ UninstallPrompt
    \/ UninstallSkill
    \/ UninstallLegacy
    \/ UninstallAux
    \/ UninstallFinish

Next == NextInstall \/ NextUninstall

\* Both programs, run one after the other in any order.
Spec == Init /\ [][Next]_vars

\* Runs of the installer only.
SpecInstall == InitInstall /\ [][NextInstall]_vars

\* Runs of the uninstaller only.
SpecUninstall == InitUninstall /\ [][NextUninstall]_vars

----------------------------------------------------------------------------
(* Properties *)

\* C1: a copy error on one item of an install does not abort the batch: the
\* item alone is reported as failed, every later complete item is installed,
\* and the run ends with N-1 successes for N complete items.
C1_CopyErrorDoesNotAbort ==
    (InstallEnded /\ Cardinality(hist.failed) = 1) =>
        /\ \A n \in hist.failed : report[n] = "failed"
        /\ \A n \in CompleteItems \ hist.failed :
              report[n] = "installed" /\ n \in DOMAIN target
        /\ installed_count = Cardinality(CompleteItems) - 1

\* C2: when the overwrite prompt of the installer is answered with anything
\* but y or Y, the run ends with exit code 0 as a cancellation and the
\* target directory is as it was; nothing is copied before the answer.
C2_DeclineLeavesTarget ==
    /\ (prog = "install" /\ pc = "prompt") =>
          target = target0 /\ tgtExists = tgtExists0 /\ report = NoReport
    /\ (prog = "install" /\ hist.prompted /\ response \in Responses \ {"y", "Y"}) =>
          /\ pc = "exit"
          /\ out = [code |-> 0, msg |-> "cancelled"]
          /\ target = target0
          /\ tgtExists = tgtExists0
          /\ report = NoReport

C2_Witness ==
    /\ InstallEnded /\ response = "" /\ out.msg = "cancelled"
    /\ \E n \in CompleteItems : n \in DOMAIN target

\* C3: over an empty target, a completed install leaves exactly one
\* sub-directory per complete source item, under the source's name, none for
\* an incomplete item, and reports that many installed skills.
C3_InstallsExactlyComplete ==
    (InstallDone /\ DOMAIN target0 = {}) =>
        /\ DOMAIN target = CompleteItems
        /\ installed_count = Cardinality(CompleteItems)

C3_Witness ==
    /\ InstallDone /\ DOMAIN target0 = {}
    /\ Cardinality(CompleteItems) = 2 /\ installed_count = 2
    /\ \E n \in IncompleteItems : src[n].entries = <<>>

\* C4 as stated: after an install that went through its loop, every source
\* sub-directory without SKILL.md is reported as skipped, its target
\* sub-directory is untouched, and the target holds no sub-directory of
\* that name.
C4_IncompleteNeverInTarget ==
    InstallDone =>
        \A n \in IncompleteItems :
            /\ report[n] = "skipped"
            /\ n \in DOMAIN target0 => (n \in DOMAIN target /\ target[n] = target0[n])
            /\ n \notin DOMAIN target

\* C4 as amended: in an install run, every source sub-directory without
\* SKILL.md that the loop has reached is reported as skipped, and its target
\* sub-directory is present after the run exactly when it was present
\* before, with the same files: the run neither creates nor touches it.
C4_IncompleteUntouched ==
    prog = "install" =>
        \A n \in IncompleteItems :
            /\ n \in DOMAIN target <=> n \in DOMAIN target0
            /\ n \in DOMAIN target => target[n] = target0[n]
            /\ (pc \in {"loop", "exit"} /\ n \in Range(skill_dirs) /\ PosOf(n) < idx)
                  => report[n] = "skipped"
            /\ InstallDone => report[n] = "skipped"

C4_Witness ==
    /\ InstallDone
    /\ \E n \in IncompleteItems :
          /\ n \in DOMAIN target /\ report[n] = "skipped"
          /\ DOMAIN src[n].entries # {}
    /\ \E n \in IncompleteItems : n \notin DOMAIN target

\* C5: an uninstall that follows an install, with the confirmation accepted
\* and no filesystem failure, removes from the target root exactly the item
\* directories the install installed and leaves every other entry.
C5_UninstallRemovesInstalled ==
    ( /\ UninstallEnded /\ out.msg = "success"
      /\ hist.accepted
      /\ faults = 0
      /\ prev.prog = "install" /\ prev.done ) =>
        DOMAIN target = DOMAIN target0 \ prev.installed

\* C6: a second install over an unchanged source, run after a completed
\* install, leaves the target tree (item directories, their files, the
\* files' contents) as the first install left it.
C6_InstallIdempotent ==
    (InstallDone /\ prev.prog = "install" /\ prev.done) => target = target0

C6_Witness ==
    /\ InstallDone /\ prev.prog = "install" /\ prev.done /\ hist.accepted
    /\ \E n \in CompleteItems : n \in prev.installed /\ report[n] = "installed"

\* C7: both programs end with exit code 0 on success or cancellation and
\* with exit code 1, after a diagnostic, when a failure reaches the top
\* level.
C7_ExitCodes ==
    pc = "exit" =>
        /\ out.msg \in {"success", "cancelled", "info"} => out.code = 0
        /\ raised = "Exception" => (out.code = 1 /\ out.msg = "error")

\* C8: in both programs an interrupt at a confirmation prompt ends the run
\* with the cancellation message, never with a traceback.
C8_InterruptIsCancellation ==
    (pc = "exit" /\ hist.interrupted) => out.msg = "cancelled"

\* C9: in a confirmed uninstall a failed deletion is reported for its name
\* and the loops go on: every listed name still present afterwards is one
\* whose deletion failed, absent names are left alone, and the two counters
\* equal the numbers of deletions that succeeded.
C9_DeletionFailureIsolated ==
    prog = "uninstall" =>
        /\ removed_skills = Cardinality(hist.deleted \cap Range(skills))
        /\ removed_legacy = Cardinality(hist.deleted \cap Range(legacy_commands))
        /\ \A n \in hist.failed : report[n] = "failed"
        /\ (hist.accepted /\ pc \in {"aux", "finish", "exit"}) =>
              /\ \A n \in Range(skills) \cap DOMAIN target : n \in hist.failed
              /\ \A c \in Range(legacy_commands) \cap commands : c \in hist.failed
              /\ \A n \in hist.deleted : n \notin DOMAIN target /\ n \notin commands
        /\ \A n \in Range(skills) \ DOMAIN target0 :
              n \notin DOMAIN target /\ report[n] = "none"
        /\ \A c \in Range(legacy_commands) \ commands0 :
              c \notin commands /\ report[c] = "none"

C9_Witness ==
    /\ UninstallEnded /\ out.msg = "success"
    /\ "commit" \in hist.failed /\ "docs" \in hist.deleted
    /\ removed_skills = 1
    /\ "commit.md" \in hist.deleted /\ "docs.md" \notin commands0

\* C10: an install that overwrites an existing item leaves in the item's
\* target sub-directory exactly the regular files of the source item, with
\* the source's contents, and nothing of the earlier target state.
C10_FullyOverwritten ==
    (InstallDone /\ hist.accepted) =>
        \A n \in CompleteItems \cap DOMAIN target0 :
            /\ DOMAIN target[n] = SourceFiles(n)
            /\ \A f \in SourceFiles(n) : target[n][f] = src[n].entries[f].data

====
